---- MODULE Spec2Model ----
(***************************************************************************)
(* A model of src/js/thing.js: the responsive chart page of the            *)
(* presidents-economy graphic.  The state is the module-level state of     *)
(* thing.js (graphicData, isMobile), the part of the page it writes (the   *)
(* chart containers), the measured width of #interactive-content, and the  *)
(* state of the throttled resize handler.  Every event handler of the page *)
(* runs to completion, so each handler is one action.                      *)
(*                                                                         *)
(* Lengths are kept exact: a height is carried in fifths of a pixel        *)
(* (names ending in 5), a horizontal position in units of 1/XDen pixel,    *)
(* a vertical position as a numerator over 5 * (max - min).                *)
(***************************************************************************)
EXTENDS Integers, Sequences, FiniteSets, TLC

VARIABLES
    json,          \* the parsed data/metrics.json: [keys: key order, metric: key -> record]
    graphicData,   \* thing.js:54, [loaded, keys, metric]
    isMobile,      \* thing.js:55
    contentWidth,  \* what $('#interactive-content').width() returns now
    wrappers,      \* the keys makeHTML has created a #key wrapper for, in order
    dom,           \* key -> the children of '#key .chart', in document order
    bound,         \* whether the window resize handler is registered (thing.js:68)
    passes,        \* render passes started
    fmResizes,     \* calls of fm.resize()
    log,           \* what the most recent render pass did, in order
    pc,            \* "ready" before the document-ready callback ran, "loaded" after
    now,           \* the clock, in ms
    last,          \* throttle: when the wrapped function last ran, -1 if never
    timers,        \* throttle: deferred calls waiting on a timeout
    renderTimes    \* the times at which resize-driven render passes started

vars == <<json, graphicData, isMobile, contentWidth, wrappers, dom, bound,
          passes, fmResizes, log, pc, now, last, timers, renderTimes>>

----------------------------------------------------------------------------
(* Bounds of the model *)

MaxPasses == 4
MaxTime == 500
TickMs == 125

----------------------------------------------------------------------------
(* Globals, thing.js:12-52 *)

MOBILE_BREAKPOINT == 600

THROTTLE_WAIT == 250

IsLeap(y) == (y % 4 = 0 /\ y % 100 # 0) \/ y % 400 = 0

LeapsBefore(y) == ((y - 1) \div 4) - ((y - 1) \div 100) + ((y - 1) \div 400)

DaysInMonth(y, m) ==
    IF m = 1 THEN (IF IsLeap(y) THEN 29 ELSE 28)
    ELSE IF m \in {3, 5, 8, 10} THEN 30 ELSE 31

RECURSIVE DaysBeforeMonth(_, _)
DaysBeforeMonth(y, m) ==
    IF m = 0 THEN 0 ELSE DaysBeforeMonth(y, m - 1) + DaysInMonth(y, m - 1)

\* new Date(year, monthIndex, day) as a day number (days since 2000-01-01, local
\* midnight).  monthIndex is 0-based and a monthIndex of 12 or more rolls over
\* into the following year, as the Date constructor does.
JSDate(year, monthIndex, day) ==
    LET y == year + (monthIndex \div 12)
        m == monthIndex % 12
    IN  365 * (y - 2000) + (LeapsBefore(y) - LeapsBefore(2000))
          + DaysBeforeMonth(y, m) + (day - 1)

MIN_DATE == JSDate(2000, 1, 1)

MAX_DATE == JSDate(2021, 1, 1)

DISPLAY_ORDER ==
    <<"gdp", "unemployment", "labor", "poverty", "trade",
      "stocks", "wages", "budget", "debt">>

TERMS ==
    << [president |-> "Clinton", start |-> JSDate(2000, 1, 1), end |-> JSDate(2000, 12, 31)],
       [president |-> "Bush",    start |-> JSDate(2001, 1, 1), end |-> JSDate(2008, 12, 31)],
       [president |-> "Obama",   start |-> JSDate(2009, 1, 1), end |-> JSDate(2016, 12, 31)],
       [president |-> "Trump",   start |-> JSDate(2017, 1, 1), end |-> JSDate(2020, 12, 31)] >>

Range(s) == {s[i] : i \in DOMAIN s}

----------------------------------------------------------------------------
(* JavaScript values that the charts handle: numbers, strings, undefined *)

Undefined == [type |-> "undefined", num |-> 0, str |-> ""]

Number(n) == [type |-> "number", num |-> n, str |-> ""]

String(s) == [type |-> "string", num |-> 0, str |-> s]

Numbers(s) == [i \in DOMAIN s |-> Number(s[i])]

\* array[i] with a 0-based index: undefined outside the array
At(array, i) == IF (i + 1) \in DOMAIN array THEN array[i + 1] ELSE Undefined

\* The string a value converts to, as in '+' + d
Str(v) ==
    IF v.type = "number" THEN ToString(v.num)
    ELSE IF v.type = "string" THEN v.str
    ELSE "undefined"

\* What d3's selection.text(v) writes: nothing for undefined
TextContent(v) == IF v.type = "undefined" THEN "" ELSE Str(v)

----------------------------------------------------------------------------
(* The input: what data/metrics.json may hold.  A metric carries the fields  *)
(* the charts read: min, max, ticks, show_plus.  ticks.present is whether    *)
(* the field is there at all (thing.js:219 allows for its absence).          *)

Signed == {"gdp", "trade", "stocks", "budget"}

StdTicks(key) ==
    IF key \in Signed THEN Numbers(<<-4, -2, 0, 2, 4>>) ELSE Numbers(<<0, 2, 4, 6, 8>>)

StdMetric(key) ==
    [ min       |-> IF key \in Signed THEN -4 ELSE 0,
      max       |-> IF key \in Signed THEN 4 ELSE 8,
      ticks     |-> [present |-> TRUE, list |-> StdTicks(key)],
      show_plus |-> key \in Signed ]

ExtraKey == "inflation"

AllKeys == Range(DISPLAY_ORDER) \cup {ExtraKey}

Reverse(s) == [i \in DOMAIN s |-> s[Len(s) + 1 - i]]

\* The key orders a metrics.json may have: the display order, another order of
\* the same keys, one more key than the display order, one key fewer.
KeyOrders ==
    { DISPLAY_ORDER,
      Reverse(DISPLAY_ORDER),
      <<DISPLAY_ORDER[1], ExtraKey>> \o SubSeq(DISPLAY_ORDER, 2, Len(DISPLAY_ORDER)),
      SubSeq(DISPLAY_ORDER, 1, Len(DISPLAY_ORDER) - 1) }

\* The metrics whose tick list the inputs vary, and how: "absent" (no ticks
\* field), or a tick list cut to 3 or 4 entries.
VariedKeys == {"gdp", "labor"}

TickDefects == {"absent", "three", "four"}

DefectTicks(key, defect) ==
    IF defect = "absent" THEN [present |-> FALSE, list |-> <<>>]
    ELSE IF defect = "three" THEN [present |-> TRUE, list |-> SubSeq(StdTicks(key), 1, 3)]
    ELSE [present |-> TRUE, list |-> SubSeq(StdTicks(key), 1, 4)]

Dataset(keys, badKey, defect) ==
    [ keys   |-> keys,
      metric |-> [k \in Range(keys) |->
                    IF k = badKey
                    THEN [StdMetric(k) EXCEPT !.ticks = DefectTicks(k, defect)]
                    ELSE StdMetric(k)] ]

Datasets ==
    { Dataset(keys, "", "absent") : keys \in KeyOrders }
      \cup { Dataset(keys, k, df) : keys \in KeyOrders, k \in VariedKeys, df \in TickDefects }

\* The widths #interactive-content may measure
Widths == {0, 50, 320, 600, 601, 940}

----------------------------------------------------------------------------
(* renderGraphic, thing.js:155-309 *)

\* thing.js:159-164
margins == [top |-> 10, right |-> 20, bottom |-> 30, left |-> 50]

\* thing.js:16-23
TICK_VALUES ==
    << MIN_DATE, JSDate(2004, 1, 1), JSDate(2008, 1, 1), JSDate(2012, 1, 1),
       JSDate(2016, 1, 1), JSDate(2020, 1, 1) >>

\* The denominator of horizontal positions: the length of the time domain
XDen == MAX_DATE - MIN_DATE

\* thing.js:157, the aspect ratio as a fraction num/den
AspectRatio(mobile) == IF mobile THEN [num |-> 5, den |-> 2] ELSE [num |-> 5, den |-> 1]

\* thing.js:168, height = width / aspectRatio, in fifths of a pixel
Height5(width, mobile) ==
    LET a == AspectRatio(mobile) IN (5 * width * a.den) \div a.num

\* thing.js:188-190, xScale(date) in units of 1/XDen pixel: the linear map of
\* [MIN_DATE, MAX_DATE] onto [0, chartWidth], not clamped
xScale(chartWidth, date) == chartWidth * (date - MIN_DATE)

\* thing.js:192-194, yScale(v) as a numerator over 5 * (max - min): the linear
\* map of [min, max] onto [chartHeight, 0]; NaN for a value that is no number
yScale(chartHeight5, data, v) ==
    IF v.type = "number"
    THEN [nan |-> FALSE, num |-> chartHeight5 * (data.max - v.num)]
    ELSE [nan |-> TRUE, num |-> 0]

\* thing.js:197-204, the shaded band of one term
Band(term, chartWidth, chartHeight5) ==
    [ president |-> term.president,
      x         |-> xScale(chartWidth, term.start),
      width     |-> xScale(chartWidth, term.end) - xScale(chartWidth, term.start),
      height5   |-> chartHeight5 ]

\* thing.js:220-228, the tick values handed to the vertical axis
ThinTicks(tickValues, mobile) ==
    IF mobile
    THEN <<At(tickValues, 0), At(tickValues, 2), At(tickValues, 4)>>
    ELSE tickValues

\* thing.js:231-241 with `d < 0' for `d <= 0'
tickFormatStrict(d, show_plus) ==
    IF d.type = "number" /\ d.num < 0 THEN d
    ELSE IF show_plus THEN String("+" \o Str(d))
    ELSE d

\* thing.js:231-241, the function that formats a vertical tick.  `undefined
\* <= 0' is false, so undefined falls through to the show_plus test.
tickFormat(d, show_plus) ==
    IF d.type = "number" /\ d.num <= 0 THEN d
    ELSE IF show_plus THEN String("+" \o Str(d))
    ELSE d

\* thing.js:175, containerElement.html('')
ClearContainer(children) == <<>>

\* thing.js:301-306: the label's y reads ticks[ticks.length - 1], which throws
\* a TypeError when the metric has no ticks field
LabelThrows(data) == ~data.ticks.present

\* The subtree renderGraphic builds under the container (thing.js:166-308).
\* labelled says whether the label got its position and the bubble its width
\* (thing.js:304-308).  The gridlines (thing.js:254-275, the same ticks with
\* empty labels) and the line path (thing.js:277-292) are not part of the
\* model.
Chart(width, data, mobile) ==
    LET height5      == Height5(width, mobile)
        chartWidth   == width - (margins.left + margins.right)
        chartHeight5 == height5 - 5 * (margins.top + margins.bottom)
        tickValues   == IF data.ticks.present
                        THEN ThinTicks(data.ticks.list, mobile) ELSE <<>>
    IN  [ width        |-> chartWidth + margins.left + margins.right,
          height5      |-> chartHeight5 + 5 * (margins.top + margins.bottom),
          mobile       |-> mobile,
          chartWidth   |-> chartWidth,
          chartHeight5 |-> chartHeight5,
          bands        |-> [i \in DOMAIN TERMS |-> Band(TERMS[i], chartWidth, chartHeight5)],
          xTicks       |-> [i \in DOMAIN TICK_VALUES |-> xScale(chartWidth, TICK_VALUES[i])],
          hasTicks     |-> data.ticks.present,
          yTicks       |-> tickValues,
          yTickPos     |-> [i \in DOMAIN tickValues |-> yScale(chartHeight5, data, tickValues[i])],
          yLabels      |-> [i \in DOMAIN tickValues |->
                             TextContent(tickFormat(tickValues[i], data.show_plus))],
          labelY       |-> IF LabelThrows(data) THEN [nan |-> TRUE, num |-> 0]
                           ELSE yScale(chartHeight5, data,
                                       At(data.ticks.list, Len(data.ticks.list) - 1)),
          labelled     |-> ~LabelThrows(data) ]

\* Chart, tabulated over the inputs of the model (computed once)
Metrics == UNION {Range(ds.metric) : ds \in Datasets}

ChartTable == [w \in Widths, data \in Metrics, mobile \in BOOLEAN |-> Chart(w, data, mobile)]

\* renderGraphic(config) with config = {container: '#' + key + ' .chart', width,
\* data}: the new content of the page and whether the call threw.  A
\* selection of a container that does not exist is empty: every d3 call on
\* it does nothing, until label[0][0] (thing.js:308) is read off it.
renderGraphic(key, width, data, mobile, d, wr) ==
    LET exists == key \in Range(wr) IN
    [ dom   |-> IF exists
                THEN [d EXCEPT ![key] = Append(ClearContainer(d[key]), ChartTable[width, data, mobile])]
                ELSE d,
      threw |-> LabelThrows(data) \/ ~exists ]

----------------------------------------------------------------------------
(* render, thing.js:131-150 *)

\* thing.js:134 with `<' for `<='
ClassifyStrict(width) == width < MOBILE_BREAKPOINT

\* thing.js:134-138
Classify(width) == width <= MOBILE_BREAKPOINT

Event(op, key) == [op |-> op, key |-> key]

\* thing.js:140-146, _.forIn(graphicData, ...) from the i-th key on, in the
\* object's own key order; an exception out of renderGraphic ends the loop
\* and the pass.
RECURSIVE RenderFrom(_, _, _, _, _, _, _)
RenderFrom(gd, i, width, mobile, d, wr, lg) ==
    IF i > Len(gd.keys) THEN [dom |-> d, log |-> lg, threw |-> FALSE]
    ELSE LET key == gd.keys[i]
             r   == renderGraphic(key, width, gd.metric[key], mobile, d, wr)
         IN  IF r.threw
             THEN [dom |-> r.dom, log |-> Append(lg, Event("throw", key)), threw |-> TRUE]
             ELSE RenderFrom(gd, i + 1, width, mobile, r.dom, wr, Append(lg, Event("draw", key)))

\* render(): the state it leaves.  fm.resize() (thing.js:149) is reached only
\* when no renderGraphic threw.
render(gd, width, d, wr) ==
    LET mobile == Classify(width)
        r      == RenderFrom(gd, 1, width, mobile, d, wr, <<>>)
    IN  [ isMobile |-> mobile,
          dom      |-> r.dom,
          threw    |-> r.threw,
          log      |-> IF r.threw THEN r.log ELSE Append(r.log, Event("fm.resize", "")) ]

----------------------------------------------------------------------------
(* The page: init, makeHTML, onResize and the throttled resize handler *)

\* formatData, thing.js:75-91: it adds a parsed date to each data point and
\* returns the object it was given; the fields the charts' geometry reads
\* are passed through.
formatData(data) == [loaded |-> TRUE, keys |-> data.keys, metric |-> data.metric]

\* makeHTML, thing.js:96-119: a wrapper with a .chart div per key of
\* DISPLAY_ORDER; data['metric'] (thing.js:107) throws on a key the data
\* does not have, before that wrapper gets its .chart div.
RECURSIVE makeHTMLFrom(_, _, _)
makeHTMLFrom(gd, i, wr) ==
    IF i > Len(DISPLAY_ORDER) THEN [wrappers |-> wr, threw |-> FALSE]
    ELSE IF DISPLAY_ORDER[i] \notin Range(gd.keys) THEN [wrappers |-> wr, threw |-> TRUE]
    ELSE makeHTMLFrom(gd, i + 1, Append(wr, DISPLAY_ORDER[i]))

makeHTML(gd) == makeHTMLFrom(gd, 1, <<>>)

\* One call of render() (thing.js:131-150), which measures width
RenderPass(gd, wr, width) ==
    LET r == render(gd, width, dom, wr) IN
    /\ isMobile' = r.isMobile
    /\ dom' = r.dom
    /\ log' = r.log
    /\ passes' = passes + 1
    /\ fmResizes' = IF r.threw THEN fmResizes ELSE fmResizes + 1

\* onResize, thing.js:124-126.  It measures the width the content has when
\* it runs (contentWidth' in the step of the handler).
onResize ==
    /\ RenderPass(graphicData, wrappers, contentWidth')
    /\ renderTimes' = Append(renderTimes, now)
    /\ UNCHANGED <<json, graphicData, wrappers, bound, pc>>

\* The function utils.throttle(onResize, 250) returns, called at time now:
\* it runs onResize if the wait has passed since the last run, defers one
\* call to the end of the wait otherwise, and drops the call when one is
\* already deferred.
throttle ==
    IF last = -1 \/ now - last >= THROTTLE_WAIT
    THEN onResize /\ last' = now /\ timers' = 0
    ELSE /\ timers' = IF timers = 0 THEN 1 ELSE timers
         /\ UNCHANGED <<json, graphicData, isMobile, wrappers, dom, bound, passes,
                        fmResizes, log, pc, last, renderTimes>>

\* thing.js:68 with onResize bound to the resize event as it is
ResizeHandlerUnthrottled == onResize /\ UNCHANGED <<last, timers>>

\* thing.js:68, the handler $(window).resize(...) registers
ResizeHandler == throttle

\* The document-ready callback (thing.js:312-314) and the request.json
\* callback of init (thing.js:62-70), with the data arrived.  An exception out
\* of makeHTML or render ends the callback: what follows it does not run.
Load ==
    /\ pc = "ready"
    /\ pc' = "loaded"
    /\ graphicData' = formatData(json)
    /\ LET gd == formatData(json)
           m  == makeHTML(gd)
       IN  /\ wrappers' = m.wrappers
           /\ IF m.threw
              THEN UNCHANGED <<isMobile, dom, log, passes, fmResizes, bound>>
              ELSE /\ RenderPass(gd, m.wrappers, contentWidth)
                   /\ bound' = ~render(gd, contentWidth, dom, m.wrappers).threw
    /\ UNCHANGED <<json, contentWidth, now, last, timers, renderTimes>>

\* The window is resized: the content measures w from now on, and the
\* registered handler, if any, is called.
WindowResize(w) ==
    /\ passes < MaxPasses
    /\ contentWidth' = w
    /\ IF bound
       THEN ResizeHandler
       ELSE UNCHANGED <<json, graphicData, isMobile, wrappers, dom, bound, passes,
                        fmResizes, log, pc, last, timers, renderTimes>>
    /\ UNCHANGED now

\* The timeout of a deferred call expires
TimerFire ==
    /\ timers > 0
    /\ now - last >= THROTTLE_WAIT
    /\ passes < MaxPasses
    /\ UNCHANGED <<contentWidth, now>>
    /\ onResize
    /\ last' = now
    /\ timers' = timers - 1

\* Time passes; the clock starts when the data has arrived
Tick ==
    /\ pc = "loaded"
    /\ now + TickMs <= MaxTime
    /\ now' = now + TickMs
    /\ UNCHANGED <<json, graphicData, isMobile, contentWidth, wrappers, dom, bound,
                   passes, fmResizes, log, pc, last, timers, renderTimes>>

Init ==
    /\ json \in Datasets
    /\ graphicData = [loaded |-> FALSE, keys |-> <<>>, metric |-> <<>>]
    /\ isMobile = FALSE
    /\ contentWidth \in Widths
    /\ wrappers = <<>>
    /\ dom = [k \in AllKeys |-> <<>>]
    /\ bound = FALSE
    /\ passes = 0
    /\ fmResizes = 0
    /\ log = <<>>
    /\ pc = "ready"
    /\ now = 0
    /\ last = -1
    /\ timers = 0
    /\ renderTimes = <<>>

Next ==
    \/ Load
    \/ \E w \in Widths : WindowResize(w)
    \/ TimerFire
    \/ Tick

Spec == Init /\ [][Next]_vars

----------------------------------------------------------------------------
(* What the claims speak of *)

\* The keys renderGraphic was called for in the most recent pass, in order
Attempted == SelectSeq(log, LAMBDA e : e.op \in {"draw", "throw"})

Drawn(key) == Event("draw", key) \in Range(log)

Threw(key) == Event("throw", key) \in Range(log)

Notified == Event("fm.resize", "") \in Range(log)

\* The metric of a key of the loaded data
MetricOf(key) == graphicData.metric[key]

\* The content is wider than the margins of a chart, so that the chart area
\* has a positive width
WiderThanMargins == contentWidth > margins.left + margins.right

\* The data is as the charts expect it: every metric has a 5-element tick list
FiveTicks ==
    \A k \in Range(json.keys) :
        json.metric[k].ticks.present /\ Len(json.metric[k].ticks.list) = 5

----------------------------------------------------------------------------
(* The claims *)

\* C1: every chart on the page was drawn with the layout of its own width w:
\* for w <= 600 its height is w / 2.5 and, for a metric with a 5-element tick
\* list, its vertical axis has exactly the entries 0, 2 and 4 of that list; for
\* w > 600 its height is w / 5 and the axis has all 5 ticks.  The class a chart
\* was drawn with is the class of its own width, never that of an earlier pass.
C1_BreakpointLayout ==
    \A k \in AllKeys : \A n \in DOMAIN dom[k] :
        LET c    == dom[k][n]
            list == MetricOf(k).ticks.list
            five == MetricOf(k).ticks.present /\ Len(list) = 5
        IN  /\ c.mobile = (c.width <= 600)
            /\ c.width <= 600 =>
                 /\ c.height5 = 2 * c.width
                 /\ five => c.yTicks = <<list[1], list[3], list[5]>>
            /\ c.width > 600 =>
                 /\ c.height5 = c.width
                 /\ five => c.yTicks = list /\ Len(c.yTicks) = 5

\* C1's case: after a later pass, a chart drawn at the breakpoint width itself,
\* with three ticks
C1_Witness ==
    /\ passes >= 2
    /\ \E k \in AllKeys :
         /\ Len(dom[k]) = 1
         /\ dom[k][1].width = 600
         /\ Len(dom[k][1].yTicks) = 3
         /\ Len(MetricOf(k).ticks.list) = 5

\* C2: after one or more render passes, every chart container holds exactly
\* one chart subtree, and a complete one.  Stated for a content wider than
\* the margins.
C2_OneSubtreePerContainer ==
    (passes >= 1 /\ WiderThanMargins) =>
        \A k \in Range(DISPLAY_ORDER) : Len(dom[k]) = 1 /\ dom[k][1].labelled

\* The part of C2 that holds of every pass: no container ever holds more than
\* one subtree, and a pass at the width of the pass before it leaves the
\* page as it was.
RenderRepeatable ==
    /\ [](\A k \in AllKeys : Len(dom[k]) <= 1)
    /\ [][(passes >= 1 /\ passes' = passes + 1
             /\ \E k \in AllKeys : Len(dom[k]) = 1 /\ dom[k][1].width = contentWidth')
            => dom' = dom]_vars

C4_HostNotifiedAfterEveryPass ==
    WiderThanMargins =>
    /\ fmResizes = passes
    /\ passes >= 1 =>
         /\ Len(log) >= 1
         /\ log[Len(log)] = Event("fm.resize", "")
         /\ \A i \in 1 .. (Len(log) - 1) : log[i].op = "draw"
         /\ \A k \in Range(DISPLAY_ORDER) : Drawn(k)

\* C5: when a pass fails at a metric because that metric has no tick list,
\* every other metric's chart is still drawn in that pass and the pass goes on
\* to its end.  Stated for a content wider than the margins.
C5_FailureIsolated ==
    \A b \in AllKeys :
        (passes >= 1 /\ WiderThanMargins /\ Threw(b) /\ ~MetricOf(b).ticks.present) =>
            /\ \A k \in Range(DISPLAY_ORDER) \ {b} : Drawn(k)
            /\ Notified

\* C6: a pass calls renderGraphic for the keys of DISPLAY_ORDER, in that
\* order, and for no other key: the i-th call of a pass is for DISPLAY_ORDER[i].
\* Stated for data in which every metric has its 5 ticks and a content wider
\* than the margins.
C6_DisplayOrderDrawn ==
    (FiveTicks /\ WiderThanMargins) =>
        \A i \in DOMAIN Attempted :
            i \in DOMAIN DISPLAY_ORDER /\ Attempted[i].key = DISPLAY_ORDER[i]

\* C7: a pass that measures a width of zero or less draws nothing, so that no
\* chart of zero or negative width or height is on the page.  Stated for
\* data in which every metric has its 5 ticks.
C7_ZeroWidthSkipped ==
    FiveTicks =>
        \A k \in AllKeys : \A n \in DOMAIN dom[k] :
            dom[k][n].width > 0 /\ dom[k][n].height5 > 0

\* C8: in a mobile pass, drawing a metric whose tick list has fewer than 5
\* entries raises an error: no vertical axis with an undefined tick is drawn.
\* Stated for a content wider than the margins.
C8_ShortTicksFailLoudly ==
    \A k \in AllKeys :
        (passes >= 1 /\ WiderThanMargins /\ isMobile /\ (Drawn(k) \/ Threw(k))
           /\ MetricOf(k).ticks.present /\ Len(MetricOf(k).ticks.list) < 5) =>
            /\ Threw(k)
            /\ \A n \in DOMAIN dom[k] : Undefined \notin Range(dom[k][n].yTicks)

\* C9: in every chart drawn at a positive measured width, the band of each
\* term starts at xScale(start), ends at xScale(end), is as high as the chart
\* and has a strictly positive width.  Stated for data in which every metric
\* has its 5 ticks.
C9_BandsPositive ==
    \A k \in AllKeys : \A n \in DOMAIN dom[k] :
        LET c == dom[k][n] IN
        (FiveTicks /\ c.width > 0) =>
            \A i \in DOMAIN TERMS :
                /\ c.bands[i].x = c.chartWidth * (TERMS[i].start - MIN_DATE)
                /\ c.bands[i].x + c.bands[i].width = c.chartWidth * (TERMS[i].end - MIN_DATE)
                /\ c.bands[i].height5 = c.chartHeight5
                /\ c.bands[i].width > 0

\* C10: the label of a vertical tick d is d with a leading '+' if and only if
\* d > 0 and the metric's show_plus is set, and d as it is otherwise; with
\* show_plus, 4 is labelled "+4", -2 "-2" and 0 "0".
C10_TickLabels ==
    \A k \in AllKeys : \A n \in DOMAIN dom[k] :
        LET c    == dom[k][n]
            plus == MetricOf(k).show_plus
        IN  \A i \in DOMAIN c.yTicks :
                LET d == c.yTicks[i] IN
                d.type = "number" =>
                    /\ c.yLabels[i] = IF d.num > 0 /\ plus
                                      THEN "+" \o ToString(d.num) ELSE ToString(d.num)
                    /\ (plus /\ d.num = 4) => c.yLabels[i] = "+4"
                    /\ (plus /\ d.num = -2) => c.yLabels[i] = "-2"
                    /\ (plus /\ d.num = 0) => c.yLabels[i] = "0"

\* C10's case: a chart of a show_plus metric with the labels "+4", "-2", "0",
\* and a chart of a metric without show_plus with the label "4"
C10_Witness ==
    /\ \E k \in AllKeys : \E n \in DOMAIN dom[k] :
         /\ MetricOf(k).show_plus
         /\ {"+4", "-2", "0"} \subseteq Range(dom[k][n].yLabels)
    /\ \E k \in AllKeys : \E n \in DOMAIN dom[k] :
         /\ ~MetricOf(k).show_plus
         /\ "4" \in Range(dom[k][n].yLabels)

====
